---- MODULE Spec2Model ----
(***************************************************************************)
(* Model of the B+ tree of rusty-le/src/bplus_tree.rs: a root node, a      *)
(* height counter, and the operations insert, search, range_query and      *)
(* all_keys.  Sequences are 1-based here and 0-based in the source: the    *)
(* source index i is the index i+1 below.                                  *)
(***************************************************************************)
EXTENDS Integers, Sequences, FiniteSets, TLC

\* ------------------------------------------------------------------ bounds
MaxKey == 5
NumVals == 2
MaxExtraKeys == 3
MaxMidKeys == 1

\* --------------------------------------------------------------- constants
MIN_DEGREE == 3
I32_MIN == -2147483647 - 1
I32_MAX == 2147483647

\* Option<String>: None is the empty sequence, Some(v) is <<v>>
None == << >>
Some(v) == <<v>>

\* ------------------------------------------------------------------ inputs
\* keys and values of the exhaustive workload
Keys == (1..MaxKey) \cup {I32_MIN, I32_MAX}
Vals == 1..NumVals

\* the insertion script of example5_bplus_tree; the strings are the values
ScenarioA ==
  << <<50, "apple">>, <<30, "cat">>, <<70, "dog">>, <<10, "elephant">>,
     <<40, "fox">>, <<60, "giraffe">>, <<80, "horse">>, <<5, "igloo">>,
     <<15, "jazz">>, <<35, "kite">> >>
ScenarioKeys == {ScenarioA[i][1] : i \in 1..Len(ScenarioA)}
\* keys of the deep workload: the scenario's keys, the two extreme i32 keys,
\* then keys above the scenario's
ExtraKey(i) == IF i = 1 THEN I32_MAX ELSE IF i = 2 THEN I32_MIN ELSE 70 + 10 * i
DeepKeys == ScenarioKeys \cup {ExtraKey(i) : i \in 1..MaxExtraKeys}
\* the deep workload writes one value per key: the scenario's string
ValueOf(k) ==
  IF k \in ScenarioKeys
  THEN (CHOOSE i \in 1..Len(ScenarioA) : ScenarioA[i][1] = k)
  ELSE 0
DeepValue(k) == IF ValueOf(k) = 0 THEN "value" ELSE ScenarioA[ValueOf(k)][2]
\* keys of the middle workload: the scenario's keys and fewer extras
MidKeys == ScenarioKeys \cup {ExtraKey(i) : i \in 1..MaxMidKeys}

KeyUniverse == Keys \cup DeepKeys

\* ------------------------------------------------------------------- nodes
Entry(k, v) == [key |-> k, value |-> v]

new_leaf == [kind |-> "Leaf", entries |-> << >>, keys |-> << >>, children |-> << >>]
new_internal == [kind |-> "Internal", entries |-> << >>, keys |-> << >>, children |-> << >>]
Leaf(es) == [kind |-> "Leaf", entries |-> es, keys |-> << >>, children |-> << >>]

is_leaf(node) == node.kind = "Leaf"
num_keys(node) == IF node.kind = "Leaf" THEN Len(node.entries) ELSE Len(node.keys)
\* is_full with the comparison off by one: a node counts as full only above 2D-1
is_full_strict(node) == num_keys(node) > 2 * MIN_DEGREE - 1
is_full(node) == num_keys(node) >= 2 * MIN_DEGREE - 1

\* Vec::insert(pos, x), pos 1-based
VecInsert(s, pos, x) == SubSeq(s, 1, pos - 1) \o <<x>> \o SubSeq(s, pos, Len(s))

\* entries.iter().position(|e| e.key == key): 0 stands for Option::None
position_eq(entries, key) ==
  IF \E p \in 1..Len(entries) : entries[p].key = key
  THEN CHOOSE p \in 1..Len(entries) :
         /\ entries[p].key = key
         /\ \A q \in 1..(p - 1) : entries[q].key # key
  ELSE 0
\* entries.iter().position(|e| e.key > key).unwrap_or(entries.len())
position_gt(entries, key) ==
  IF \E p \in 1..Len(entries) : entries[p].key > key
  THEN CHOOSE p \in 1..Len(entries) :
         /\ entries[p].key > key
         /\ \A q \in 1..(p - 1) : ~(entries[q].key > key)
  ELSE Len(entries) + 1

\* the leaf update that assigns the new entry over the first greater one
\* instead of inserting before it
upsert_entries_overwrites_next(entries, key, value) ==
  LET pos == position_eq(entries, key)
      nxt == position_gt(entries, key)
  IN
  IF pos # 0
  THEN [entries EXCEPT ![pos].value = value]
  ELSE IF nxt <= Len(entries)
       THEN [entries EXCEPT ![nxt] = Entry(key, value)]
       ELSE Append(entries, Entry(key, value))

\* the leaf update without the search for an equal key: always a new entry
upsert_entries_always_new(entries, key, value) ==
  VecInsert(entries, position_gt(entries, key), Entry(key, value))

\* the leaf update shared by insert_non_full and insert_into_child
upsert_entries(entries, key, value) ==
  LET pos == position_eq(entries, key) IN
  IF pos # 0
  THEN [entries EXCEPT ![pos].value = value]
  ELSE VecInsert(entries, position_gt(entries, key), Entry(key, value))

\* the descent loop: first i with key < keys[i], else keys.len()
child_index(keys, key) ==
  IF \E i \in 1..Len(keys) : key < keys[i]
  THEN CHOOSE i \in 1..Len(keys) :
         /\ key < keys[i]
         /\ \A j \in 1..(i - 1) : ~(key < keys[j])
  ELSE Len(keys) + 1

\* ------------------------------------------------------------------ splits
\* split_child that also splits an Internal child: the median separator is
\* promoted alone and the children are divided D and D
split_child_any_node(rt, child_idx) ==
  LET mid == MIN_DEGREE - 1
      child == rt.children[child_idx]
  IN
  IF rt.kind = "Internal" /\ child.kind = "Leaf" /\ Len(child.entries) > mid
  THEN LET split_key == child.entries[mid + 1].key
           left_entries == SubSeq(child.entries, 1, mid)
           right_entries == SubSeq(child.entries, mid + 1, Len(child.entries))
       IN [rt EXCEPT
             !.keys = VecInsert(rt.keys, child_idx, split_key),
             !.children = VecInsert([rt.children EXCEPT ![child_idx] = Leaf(left_entries)],
                                    child_idx + 1, Leaf(right_entries))]
  ELSE IF rt.kind = "Internal" /\ child.kind = "Internal" /\ Len(child.keys) > mid
  THEN LET split_key == child.keys[mid + 1]
           left == [child EXCEPT !.keys = SubSeq(child.keys, 1, mid),
                                 !.children = SubSeq(child.children, 1, mid + 1)]
           right == [child EXCEPT !.keys = SubSeq(child.keys, mid + 2, Len(child.keys)),
                                  !.children = SubSeq(child.children, mid + 2, Len(child.children))]
       IN [rt EXCEPT
             !.keys = VecInsert(rt.keys, child_idx, split_key),
             !.children = VecInsert([rt.children EXCEPT ![child_idx] = left],
                                    child_idx + 1, right)]
  ELSE rt

\* split_child that promotes the median without keeping it in the right leaf
split_child_drop_median(rt, child_idx) ==
  LET mid == MIN_DEGREE - 1
      child == rt.children[child_idx]
  IN
  IF rt.kind = "Internal" /\ child.kind = "Leaf" /\ Len(child.entries) > mid
  THEN LET split_key == child.entries[mid + 1].key
           left_entries == SubSeq(child.entries, 1, mid)
           right_entries == SubSeq(child.entries, mid + 2, Len(child.entries))
       IN [rt EXCEPT
             !.keys = VecInsert(rt.keys, child_idx, split_key),
             !.children = VecInsert([rt.children EXCEPT ![child_idx] = Leaf(left_entries)],
                                    child_idx + 1, Leaf(right_entries))]
  ELSE rt

split_child(rt, child_idx) ==
  LET mid == MIN_DEGREE - 1
      child == rt.children[child_idx]
  IN
  IF rt.kind = "Internal" /\ child.kind = "Leaf" /\ Len(child.entries) > mid
  THEN LET split_key == child.entries[mid + 1].key
           left_entries == SubSeq(child.entries, 1, mid)
           right_entries == SubSeq(child.entries, mid + 1, Len(child.entries))
       IN [rt EXCEPT
             !.keys = VecInsert(rt.keys, child_idx, split_key),
             !.children = VecInsert([rt.children EXCEPT ![child_idx] = Leaf(left_entries)],
                                    child_idx + 1, Leaf(right_entries))]
  ELSE rt

\* split_child_internal that promotes the median without keeping it in the
\* right leaf
split_child_internal_drop_median(rt, child_idx) ==
  LET mid == MIN_DEGREE - 1
      child == rt.children[child_idx]
  IN
  IF rt.kind = "Internal" /\ child.kind = "Leaf" /\ Len(child.entries) > mid
  THEN LET split_key == child.entries[mid + 1].key
           left_entries == SubSeq(child.entries, 1, mid)
           right_entries == SubSeq(child.entries, mid + 2, Len(child.entries))
       IN [rt EXCEPT
             !.keys = VecInsert(rt.keys, child_idx, split_key),
             !.children = VecInsert([rt.children EXCEPT ![child_idx] = Leaf(left_entries)],
                                    child_idx + 1, Leaf(right_entries))]
  ELSE rt

\* split_child_internal that inserts the right leaf before the left one
split_child_internal_right_first(rt, child_idx) ==
  LET mid == MIN_DEGREE - 1
      child == rt.children[child_idx]
  IN
  IF rt.kind = "Internal" /\ child.kind = "Leaf" /\ Len(child.entries) > mid
  THEN LET split_key == child.entries[mid + 1].key
           left_entries == SubSeq(child.entries, 1, mid)
           right_entries == SubSeq(child.entries, mid + 1, Len(child.entries))
       IN [rt EXCEPT
             !.keys = VecInsert(rt.keys, child_idx, split_key),
             !.children = VecInsert([rt.children EXCEPT ![child_idx] = Leaf(left_entries)],
                                    child_idx, Leaf(right_entries))]
  ELSE rt

\* split_child_internal cutting one entry too early: mid = MIN_DEGREE - 2
split_child_internal_low_mid(rt, child_idx) ==
  LET mid == MIN_DEGREE - 2
      child == rt.children[child_idx]
  IN
  IF rt.kind = "Internal" /\ child.kind = "Leaf" /\ Len(child.entries) > mid
  THEN LET split_key == child.entries[mid + 1].key
           left_entries == SubSeq(child.entries, 1, mid)
           right_entries == SubSeq(child.entries, mid + 1, Len(child.entries))
       IN [rt EXCEPT
             !.keys = VecInsert(rt.keys, child_idx, split_key),
             !.children = VecInsert([rt.children EXCEPT ![child_idx] = Leaf(left_entries)],
                                    child_idx + 1, Leaf(right_entries))]
  ELSE rt

split_child_internal(rt, child_idx) ==
  LET mid == MIN_DEGREE - 1
      child == rt.children[child_idx]
  IN
  IF rt.kind = "Internal" /\ child.kind = "Leaf" /\ Len(child.entries) > mid
  THEN LET split_key == child.entries[mid + 1].key
           left_entries == SubSeq(child.entries, 1, mid)
           right_entries == SubSeq(child.entries, mid + 1, Len(child.entries))
       IN [rt EXCEPT
             !.keys = VecInsert(rt.keys, child_idx, split_key),
             !.children = VecInsert([rt.children EXCEPT ![child_idx] = Leaf(left_entries)],
                                    child_idx + 1, Leaf(right_entries))]
  ELSE rt

\* ------------------------------------------------------------------ insert
insert_into_child(rt, child_idx, key, value) ==
  IF rt.kind = "Internal" /\ is_leaf(rt.children[child_idx])
  THEN [rt EXCEPT !.children[child_idx] =
          Leaf(upsert_entries(rt.children[child_idx].entries, key, value))]
  ELSE rt

\* the child index insert_non_full hands to insert_into_child for an Internal
\* root whose target child, if full, is a leaf (lines 100-131); it indexes
\* the children as they are after the pre-emptive split
written_child(rt, key) ==
  LET child_idx == child_index(rt.keys, key)
      should_split == is_full(rt.children[child_idx])
      r2 == IF should_split THEN split_child_internal(rt, child_idx) ELSE rt
  IN IF should_split /\ key > r2.keys[child_idx] THEN child_idx + 1 ELSE child_idx

\* the result is the root left behind and whether the call panicked
\* (keys[child_idx] out of bounds at line 122)
insert_non_full(rt, key, value) ==
  IF is_leaf(rt)
  THEN [root |-> Leaf(upsert_entries(rt.entries, key, value)), panicked |-> FALSE]
  ELSE
    LET child_idx == child_index(rt.keys, key)
        should_split == is_full(rt.children[child_idx])
        r2 == IF should_split THEN split_child_internal(rt, child_idx) ELSE rt
    IN
    IF should_split /\ child_idx > Len(r2.keys)
    THEN [root |-> r2, panicked |-> TRUE]
    ELSE LET idx2 == IF should_split /\ key > r2.keys[child_idx]
                     THEN child_idx + 1 ELSE child_idx
         IN [root |-> insert_into_child(r2, idx2, key, value), panicked |-> FALSE]

\* the root and height after the root overflow step of insert (lines 71-84)
grow_root(rt) ==
  IF is_full(rt)
  THEN split_child([new_internal EXCEPT !.children = <<rt>>], 1)
  ELSE rt

\* ----------------------------------------------------------------- queries
\* search_recursive descending with <= : a key equal to a separator goes left
RECURSIVE search_recursive_ties_left(_, _)
search_recursive_ties_left(node, key) ==
  IF node.kind = "Leaf"
  THEN LET pos == position_eq(node.entries, key) IN
       IF pos = 0 THEN None ELSE Some(node.entries[pos].value)
  ELSE LET idx == IF \E i \in 1..Len(node.keys) : key <= node.keys[i]
                  THEN CHOOSE i \in 1..Len(node.keys) :
                         /\ key <= node.keys[i]
                         /\ \A j \in 1..(i - 1) : ~(key <= node.keys[j])
                  ELSE Len(node.keys) + 1
       IN search_recursive_ties_left(node.children[idx], key)

RECURSIVE search_recursive(_, _)
search_recursive(node, key) ==
  IF node.kind = "Leaf"
  THEN LET pos == position_eq(node.entries, key) IN
       IF pos = 0 THEN None ELSE Some(node.entries[pos].value)
  ELSE search_recursive(node.children[child_index(node.keys, key)], key)

search(rt, key) == search_recursive(rt, key)

\* range_query_recursive whose leaf filter excludes the lower bound
RECURSIVE range_query_recursive_open_start(_, _, _)
range_query_recursive_open_start(node, start, end) ==
  IF node.kind = "Leaf"
  THEN LET hit == SelectSeq(node.entries, LAMBDA e : e.key > start /\ e.key <= end)
       IN [i \in 1..Len(hit) |-> <<hit[i].key, hit[i].value>>]
  ELSE
    LET n == Len(node.keys)
        m == Len(node.children)
        upto[i \in 0..n] ==
          IF i = 0 THEN << >>
          ELSE upto[i - 1] \o
               (IF start <= node.keys[i]
                THEN range_query_recursive_open_start(node.children[i], start, end)
                ELSE << >>)
        last_key == IF n > 0 THEN node.keys[n] ELSE I32_MIN
    IN upto[n] \o
       (IF m > 0 /\ end > last_key
        THEN range_query_recursive_open_start(node.children[m], start, end)
        ELSE << >>)

RECURSIVE range_query_recursive(_, _, _)
range_query_recursive(node, start, end) ==
  IF node.kind = "Leaf"
  THEN LET hit == SelectSeq(node.entries, LAMBDA e : e.key >= start /\ e.key <= end)
       IN [i \in 1..Len(hit) |-> <<hit[i].key, hit[i].value>>]
  ELSE
    LET n == Len(node.keys)
        m == Len(node.children)
        upto[i \in 0..n] ==
          IF i = 0 THEN << >>
          ELSE upto[i - 1] \o
               (IF start <= node.keys[i]
                THEN range_query_recursive(node.children[i], start, end)
                ELSE << >>)
        last_key == IF n > 0 THEN node.keys[n] ELSE I32_MIN
    IN upto[n] \o
       (IF m > 0 /\ end > last_key
        THEN range_query_recursive(node.children[m], start, end)
        ELSE << >>)

\* a scan that descends into every non-last child, whatever start is
visits_child_unpruned(node, i, start, end) ==
  \/ i \in 1..Len(node.keys)
  \/ /\ i = Len(node.children)
     /\ end > (IF Len(node.keys) > 0 THEN node.keys[Len(node.keys)] ELSE I32_MIN)

\* whether range_query_recursive at an Internal node descends into
\* children[i] (lines 262-271): in the loop over the keys, or as the last child
visits_child(node, i, start, end) ==
  \/ /\ i \in 1..Len(node.keys)
     /\ start <= node.keys[i]
  \/ /\ i = Len(node.children)
     /\ end > (IF Len(node.keys) > 0 THEN node.keys[Len(node.keys)] ELSE I32_MIN)

range_query(rt, start, end) == range_query_recursive(rt, start, end)

RECURSIVE collect_keys(_)
collect_keys(node) ==
  IF node.kind = "Leaf"
  THEN [i \in 1..Len(node.entries) |-> node.entries[i].key]
  ELSE LET m == Len(node.children)
           upto[i \in 0..m] ==
             IF i = 0 THEN << >> ELSE upto[i - 1] \o collect_keys(node.children[i])
       IN upto[m]

all_keys(rt) == collect_keys(rt)

\* ------------------------------------------------------------------- state
VARIABLES root, height, panicked, inserted, scen
vars == <<root, height, panicked, inserted, scen>>

\* BPlusTree::new(), no insert call made yet
Init ==
  /\ root = new_leaf
  /\ height = 1
  /\ panicked = FALSE
  /\ inserted = [k \in KeyUniverse |-> None]
  /\ scen = 0

\* insert that forgets self.height += 1 in the root overflow step
Insert_keeps_height(key, value) ==
  /\ ~panicked
  /\ LET res == insert_non_full(grow_root(root), key, value) IN
       /\ root' = res.root
       /\ panicked' = res.panicked
  /\ height' = height
  /\ inserted' = [inserted EXCEPT ![key] = Some(value)]
  /\ scen' = IF scen >= 0 /\ scen < Len(ScenarioA) /\ ScenarioA[scen + 1] = <<key, value>>
             THEN scen + 1 ELSE -1

\* tree.insert(key, value)
Insert(key, value) ==
  /\ ~panicked
  /\ LET res == insert_non_full(grow_root(root), key, value) IN
       /\ root' = res.root
       /\ panicked' = res.panicked
  /\ height' = IF is_full(root) THEN height + 1 ELSE height
  /\ inserted' = [inserted EXCEPT ![key] = Some(value)]
  /\ scen' = IF scen >= 0 /\ scen < Len(ScenarioA) /\ ScenarioA[scen + 1] = <<key, value>>
             THEN scen + 1 ELSE -1

Next == \E key \in Keys, value \in Vals : Insert(key, value)
Spec == Init /\ [][Next]_vars

NextDeep == \E key \in DeepKeys : Insert(key, DeepValue(key))
SpecDeep == Init /\ [][NextDeep]_vars

NextMid == \E key \in MidKeys : Insert(key, DeepValue(key))
SpecMid == Init /\ [][NextMid]_vars

\* ------------------------------------------------------- claim vocabulary
ToSet(s) == {s[i] : i \in 1..Len(s)}
StrictlyAscending(s) == \A i \in 1..(Len(s) - 1) : s[i] < s[i + 1]
EverInserted == {k \in KeyUniverse : inserted[k] # None}

\* the (key, value) pairs stored in the leaves below a node
RECURSIVE stored(_)
stored(node) ==
  IF node.kind = "Leaf"
  THEN {<<node.entries[i].key, node.entries[i].value>> : i \in 1..Len(node.entries)}
  ELSE UNION {stored(node.children[i]) : i \in 1..Len(node.children)}
stored_keys(node) == {e[1] : e \in stored(node)}

\* the (key, value) pairs in leaf order, left to right
RECURSIVE in_order(_)
in_order(node) ==
  IF node.kind = "Leaf"
  THEN [i \in 1..Len(node.entries) |-> <<node.entries[i].key, node.entries[i].value>>]
  ELSE LET m == Len(node.children)
           upto[i \in 0..m] ==
             IF i = 0 THEN << >> ELSE upto[i - 1] \o in_order(node.children[i])
       IN upto[m]

\* the nodes of the subtree rooted at a node, the node included
RECURSIVE nodes_of(_)
nodes_of(node) ==
  {node} \cup UNION {nodes_of(node.children[i]) : i \in 1..Len(node.children)}

\* ---------------------------------------------------------------------- C1
\* C1: every key inserted at least once is found by search with the value of
\* the last insert call made with that key.
C1_UpsertCorrect ==
  \A k \in KeyUniverse : inserted[k] # None => search(root, k) = inserted[k]

\* ---------------------------------------------------------------------- C2
\* C2: insert never fails: no insert call panics, from any reachable tree.
C2_InsertNeverFails == ~panicked

\* ---------------------------------------------------------------------- C3
\* C3: all_keys() is strictly ascending and its element set is the set of
\* distinct keys ever passed to insert.
C3_SortedDedupKeys ==
  /\ StrictlyAscending(all_keys(root))
  /\ ToSet(all_keys(root)) = EverInserted

\* ---------------------------------------------------------------------- C4
\* C4: for all start <= end, range_query(start, end) returns exactly the
\* stored entries with start <= key <= end, in ascending key order.
C4_RangeCorrect ==
  \A start \in Keys, end \in Keys :
    start <= end =>
      LET r == range_query(root, start, end) IN
      /\ ToSet(r) = {e \in stored(root) : start <= e[1] /\ e[1] <= end}
      /\ StrictlyAscending([i \in 1..Len(r) |-> r[i][1]])

\* ---------------------------------------------------------------------- C5
\* C5: an insert of a key already present in the tree leaves all_keys()
\* unchanged.
C5_UpsertAddsNoEntry ==
  [][\A key \in Keys, value \in Vals :
       (key \in ToSet(all_keys(root)) /\ Insert(key, value))
         => all_keys(root') = all_keys(root)]_vars

\* ---------------------------------------------------------------------- C6
\* C6: after completed inserts, search(k) finds a value exactly when some
\* earlier insert call had key k; EverInserted only grows, so a key once
\* inserted is found in every later state.
C6_MembershipExact ==
  ~panicked =>
    \A k \in KeyUniverse : (search(root, k) # None) <=> (k \in EverInserted)
C6_Witness ==
  /\ ~panicked
  /\ height = 2
  /\ Len(root.keys) >= 3
  /\ \E k \in DeepKeys : search(root, k) # None /\ k \in ToSet(root.keys)
  /\ \E k \in DeepKeys : search(root, k) = None

\* ---------------------------------------------------------------------- C7
\* C7: range_query over the whole i32 key domain returns, element for
\* element, the keys of all_keys(), each with the value stored in its entry.
C7_FullRangeIsAllKeys ==
  LET r == range_query(root, I32_MIN, I32_MAX) IN
  /\ [i \in 1..Len(r) |-> r[i][1]] = all_keys(root)
  /\ r = in_order(root)
C7_Witness ==
  /\ height = 2
  /\ Len(root.keys) >= 2
  /\ Len(all_keys(root)) >= 8
  /\ {I32_MIN, I32_MAX} \subseteq ToSet(all_keys(root))

\* ---------------------------------------------------------------------- C8
\* C8: a new tree has height 1; an insert leaves height unchanged or raises
\* it by exactly 1, and raises it exactly when the root held 2D-1 or more
\* keys when the insert began.
C8_HeightMonotone ==
  /\ height = 1
  /\ [][/\ height' \in {height, height + 1}
        /\ (height' = height + 1) <=> (num_keys(root) >= 2 * MIN_DEGREE - 1)]_vars
C8_Witness ==
  /\ height = 2
  /\ root.kind = "Internal"
  /\ Len(root.keys) = 2 * MIN_DEGREE - 1

\* ---------------------------------------------------------------------- C9
\* C9: after the ten inserts of scenario A, in order, on a new tree,
\* all_keys() is [5, 10, 15, 30, 35, 40, 50, 60, 70, 80].
C9_ScenarioA ==
  scen = Len(ScenarioA) => all_keys(root) = <<5, 10, 15, 30, 35, 40, 50, 60, 70, 80>>
C9_Witness == scen = Len(ScenarioA) /\ height = 2

\* --------------------------------------------------------------------- C10
\* C10: in every Internal node, the keys under children[i] are all < keys[i]
\* and the keys under the last child are all >= the largest separator.
SeparatorsBracket(node) ==
  LET n == Len(node.keys) IN
  /\ \A i \in 1..n : i <= Len(node.children) =>
       \A k \in stored_keys(node.children[i]) : k < node.keys[i]
  /\ (n > 0 /\ Len(node.children) > 0) =>
       \A k \in stored_keys(node.children[Len(node.children)]) : k >= node.keys[n]
C10_SeparatorInvariant ==
  \A node \in nodes_of(root) : node.kind = "Internal" => SeparatorsBracket(node)

\* --------------------------------------------------------------------- C11
\* C11: after every completed insert, every node holds at most 2D-1 keys and
\* every node other than the root holds at least D-1 keys.
C11_NodeCapacity ==
  ~panicked =>
    /\ \A node \in nodes_of(root) : num_keys(node) <= 2 * MIN_DEGREE - 1
    /\ \A node \in nodes_of(root) \ {root} : num_keys(node) >= MIN_DEGREE - 1
C11_Witness ==
  /\ ~panicked
  /\ root.kind = "Internal"
  /\ Len(root.keys) >= 3
  /\ \E i \in 1..Len(root.children) : num_keys(root.children[i]) = MIN_DEGREE - 1
  /\ \E i \in 1..Len(root.children) : num_keys(root.children[i]) = 2 * MIN_DEGREE - 1

\* --------------------------------------------------------------------- C12
\* C12: every insert that writes into a leaf below an Internal root writes
\* the leaf that search reaches for the same key on the resulting tree.
C12_InsertRoutesAsSearch ==
  [][\A key \in Keys, value \in Vals :
       (Insert(key, value) /\ ~panicked' /\ root'.kind = "Internal")
         => written_child(grow_root(root), key) = child_index(root'.keys, key)]_vars

\* --------------------------------------------------------------------- C13
\* C13: whenever insert begins with a full root, Leaf or Internal, the root
\* overflow step leaves a new Internal root with exactly one separator and
\* exactly two children, and the insert raises height by one.
C13_RootOverflowStep ==
  [][num_keys(root) >= 2 * MIN_DEGREE - 1 =>
       LET r == grow_root(root) IN
       /\ r.kind = "Internal"
       /\ Len(r.keys) = 1
       /\ Len(r.children) = 2
       /\ height' = height + 1]_vars

\* ------------------------------------------------------------- split steps
\* The splits the next insert can perform in the current state: the parent
\* before, the index of the full child, and the parent after.  The root
\* overflow step splits child 1 of the new root; the pre-emptive step splits
\* a full child of an Internal root.  A call that leaves the parent as it was
\* has split nothing.
Splits ==
  LET wrapped == [new_internal EXCEPT !.children = <<root>>]
      at_root == IF is_full(root)
                 THEN {[before |-> wrapped, idx |-> 1, after |-> split_child(wrapped, 1)]}
                 ELSE {}
      at_child == IF root.kind = "Internal"
                  THEN {[before |-> root, idx |-> i, after |-> split_child_internal(root, i)] :
                          i \in {j \in 1..Len(root.children) : is_full(root.children[j])}}
                  ELSE {}
  IN {s \in at_root \cup at_child : ~panicked /\ s.after # s.before}

SiblingSizes(left, right) ==
  \A s \in Splits :
    /\ num_keys(s.after.children[s.idx]) = left
    /\ num_keys(s.after.children[s.idx + 1]) = right

\* --------------------------------------------------------------------- C14
\* C14 as stated: after every split of a full node, each of the two siblings
\* holds exactly D-1 keys.
C14_SiblingsHalf == SiblingSizes(MIN_DEGREE - 1, MIN_DEGREE - 1)
\* C14 as amended: after every split of a full leaf, the left sibling holds
\* exactly D-1 entries and the right sibling, which keeps the median, holds
\* exactly D entries.
C14_SiblingsLeftRight == SiblingSizes(MIN_DEGREE - 1, MIN_DEGREE)
C14_Witness ==
  /\ root.kind = "Internal"
  /\ Len(root.keys) >= 2
  /\ \E s \in Splits : s.before = root /\ s.idx > 1

\* --------------------------------------------------------------------- C15
\* C15: a split of the full leaf at children[c] promotes the key of its
\* entry at (0-based) index D-1 to the parent's keys at position c, puts the
\* entries before the median in a leaf at c and the entries from the median
\* on in a leaf at c+1, loses, duplicates or changes no entry, and keeps the
\* parent's other keys and children in their order.
Without(seq, i) == SubSeq(seq, 1, i - 1) \o SubSeq(seq, i + 1, Len(seq))
C15_LeafSplitPartition ==
  \A s \in Splits :
    LET c == s.idx
        old == s.before.children[c].entries
        left == s.after.children[c]
        right == s.after.children[c + 1]
    IN
    /\ s.after.keys[c] = old[MIN_DEGREE].key
    /\ is_leaf(left) /\ is_leaf(right)
    /\ Len(left.entries) = MIN_DEGREE - 1
    /\ right.entries[1] = old[MIN_DEGREE]
    /\ left.entries \o right.entries = old
    /\ Without(s.after.keys, c) = s.before.keys
    /\ Without(Without(s.after.children, c + 1), c) = Without(s.before.children, c)
C15_Witness ==
  /\ root.kind = "Internal"
  /\ Len(root.keys) >= 2
  /\ \E s \in Splits : s.before = root /\ s.idx > 1 /\ s.idx < Len(root.children)

\* --------------------------------------------------------------------- C16
\* C16: all leaves are at the same depth, and height is the number of levels
\* on every path from the root to a leaf, both ends counted.
RECURSIVE leaf_levels(_)
leaf_levels(node) ==
  IF node.kind = "Leaf" THEN {1}
  ELSE {d + 1 : d \in UNION {leaf_levels(node.children[i]) : i \in 1..Len(node.children)}}
C16_Balanced == leaf_levels(root) = {height}
C16_Witness ==
  /\ height = 2
  /\ Len(root.children) = 2 * MIN_DEGREE

\* --------------------------------------------------------------------- C17
\* C17: every leaf's entries are strictly ascending by key, and every Internal
\* node's separators are strictly ascending with one more child than keys.
C17_NodesWellFormed ==
  \A node \in nodes_of(root) :
    IF node.kind = "Leaf"
    THEN StrictlyAscending([i \in 1..Len(node.entries) |-> node.entries[i].key])
    ELSE /\ StrictlyAscending(node.keys)
         /\ Len(node.children) = Len(node.keys) + 1
C17_Witness ==
  /\ root.kind = "Internal"
  /\ Len(root.keys) >= 3
  /\ ~StrictlyAscending(all_keys(root))

\* --------------------------------------------------------------------- C18
\* C18 as stated: range_query(start, end) does not descend into a non-last
\* child i of an Internal node when keys[i] <= start.
C18_PrunesAtOrBelowStart ==
  \A start \in MidKeys, end \in MidKeys :
    \A node \in nodes_of(root) :
      \A i \in 1..Len(node.keys) :
        (i < Len(node.children) /\ node.keys[i] <= start)
          => ~visits_child(node, i, start, end)
\* C18 as amended: range_query(start, end) does not descend into a non-last
\* child i of an Internal node when keys[i] < start.
C18_PrunesBelowStart ==
  \A start \in MidKeys, end \in MidKeys :
    \A node \in nodes_of(root) :
      \A i \in 1..Len(node.keys) :
        (i < Len(node.children) /\ node.keys[i] < start)
          => ~visits_child(node, i, start, end)
C18_Witness ==
  /\ root.kind = "Internal"
  /\ Len(root.keys) >= 3
  /\ \E start \in MidKeys :
       /\ root.keys[2] < start
       /\ start < root.keys[3]
       /\ range_query(root, start, I32_MAX) # << >>

\* --------------------------------------------------------------------- C19
\* C19: an insert(k, v) that completes leaves search(k2) as it was for every
\* key k2 other than k.  (Written as a disjunction so that the search results
\* are compared first: "search(k2) is unchanged, or no insert of a key other
\* than k2 makes this step".)
C19_InsertTouchesOwnKey ==
  [][~panicked' =>
       \A k2 \in KeyUniverse :
         \/ search(root', k2) = search(root, k2)
         \/ ~(\E key \in MidKeys \ {k2} : Insert(key, DeepValue(key)))]_vars
C19_Witness ==
  /\ ~panicked
  /\ root.kind = "Internal"
  /\ Len(root.keys) >= 3
  /\ \E k \in MidKeys : search(root, k) = None
  /\ \E i \in 1..Len(root.keys) :
       root.keys[i] \in stored_keys(root.children[i])

\* --------------------------------------------------------------------- C20
\* C20: in every state from which an insert call has returned normally,
\* height is 1 or 2 and every child of an Internal root is a Leaf.
C20_DepthAtMostTwo ==
  ~panicked =>
    /\ height \in {1, 2}
    /\ \A i \in 1..Len(root.children) : is_leaf(root.children[i])
C20_Witness ==
  /\ ~panicked
  /\ EverInserted # {}
  /\ height = 2
  /\ num_keys(root) = 2 * MIN_DEGREE - 1
  /\ \A i \in 1..Len(root.children) : is_leaf(root.children[i])

====
